---- MODULE Spec2Model ----
(***************************************************************************)
(* A model of Prediction/rrg_toolkit.py: the Relative Rotation Graph       *)
(* pipeline  prices -> RS ratios -> (JDK RS Ratio, JDK RS Momentum) ->     *)
(* coordinate table.                                                       *)
(*                                                                         *)
(* Numbers.  A float is modelled as a one-element tuple <<v>> holding an   *)
(* integer count of fixed-point units, or as the empty tuple NaN.  Every   *)
(* arithmetic operator propagates NaN and every comparison with NaN is     *)
(* FALSE, as in IEEE-754.  Sums, differences and squares are exact; a      *)
(* quotient is truncated to the fixed-point grid; a square root is kept    *)
(* exactly (see sqrt).  Floating-point rounding error, infinities and      *)
(* overflow are not modelled: the modelled inputs keep every divisor       *)
(* positive.                                                               *)
(*                                                                         *)
(* Series.  A pandas Series of length N is a sequence of N numbers; the    *)
(* Python position k (0-based) is the TLA+ index k + 1.                    *)
(***************************************************************************)
EXTENDS Integers, Sequences, FiniteSets

VARIABLES
    pc,                \* control position of the running program
    prices,            \* input price table: instrument -> series
    benchmark,         \* the benchmark's ticker symbol
    rs_ratios,         \* result of calculate_rs_ratios: instrument -> series
    jdk_rs_ratios,     \* instrument -> JDK RS Ratio series (the x series)
    jdk_rs_momentums,  \* instrument -> JDK RS Momentum series (the y series)
    etf_names,         \* the instruments extract_coordinates iterates over
    trailing_days,     \* extract_coordinates' trailing_days argument
    index_kind,        \* kind of the series' index: "dates" or "range"
    i,                 \* outer loop of extract_coordinates: position in etf_names
    j,                 \* inner loop of extract_coordinates: current index
    coordinates,       \* the coordinate table: a sequence of records
    err,               \* the exception that ended the program, or "none"
    args,              \* arguments of a directly called pure function
    ret                \* its return value: <<>> before the call, <<v>> after

vars == <<pc, prices, benchmark, rs_ratios, jdk_rs_ratios, jdk_rs_momentums, etf_names,
          trailing_days, index_kind, i, j, coordinates, err, args, ret>>

---------------------------------------------------------------------------
(* Bounds of the model.                                                    *)

\* Pure-function inputs range over -MaxCoord .. MaxCoord (and NaN).
MaxCoord == 4
\* Series handed directly to calc_jdk_rs_momentum / extract_coordinates
\* have 0 .. MaxLen points.
MaxLen == 27
\* Length of the end-to-end scenario's price series.
ScenarioDays == 250
\* Pipeline series lengths lie within Slack of MinHistory (and ScenarioDays).
Slack == 2
\* Fixed-point units per 1.0 (1.0 is Scale units, 0.1 is Scale \div 10).
Scale == 1000

(* Constants of the program.                                               *)
MinHistory == 200        \* len(data) < 200 raises
LongWindow == 200        \* rolling(window=200)
ShortWindow == 50        \* rolling(window=50)
MomentumLag == 20        \* diff(20)
HistoricLag == 5         \* x_series[j-5]
DefaultTrailingDays == 20

---------------------------------------------------------------------------
(* Floating-point values.                                                  *)

NaN == <<>>
Num(v) == <<v>>
Val(a) == a[1]
IsNaN(a) == a = NaN
Defined(a) == a # NaN

Add(a, b) == IF IsNaN(a) \/ IsNaN(b) THEN NaN ELSE Num(Val(a) + Val(b))
Sub(a, b) == IF IsNaN(a) \/ IsNaN(b) THEN NaN ELSE Num(Val(a) - Val(b))
Square(a) == IF IsNaN(a) THEN NaN ELSE Num(Val(a) * Val(a))
\* a / b on the fixed-point grid; b is never zero for the modelled inputs.
Div(a, b) == IF IsNaN(a) \/ IsNaN(b) THEN NaN ELSE Num((Val(a) * Scale) \div Val(b))

\* Comparisons: FALSE as soon as one side is NaN.
Ge(a, b) == Defined(a) /\ Defined(b) /\ Val(a) >= Val(b)
Lt(a, b) == Defined(a) /\ Defined(b) /\ Val(a) < Val(b)

\* Largest k with k * k <= s, by bisection on lo .. hi (lo*lo <= s < (hi+1)^2).
RECURSIVE ISqrtIn(_, _, _)
ISqrtIn(lo, hi, s) ==
    IF lo >= hi THEN lo
    ELSE LET mid == (lo + hi + 1) \div 2
         IN  IF mid * mid <= s THEN ISqrtIn(mid, hi, s) ELSE ISqrtIn(lo, mid - 1, s)

ISqrt(s) == ISqrtIn(0, IF s < 46340 THEN s ELSE 46340, s)

\* np.sqrt(a) for a >= 0: the real root of a, kept exactly as its square
\* together with its integer part (the root is an integer iff floor^2 = sq).
sqrt(a) == IF IsNaN(a) \/ Val(a) < 0 THEN NaN
           ELSE <<[sq |-> Val(a), floor |-> ISqrt(Val(a))]>>

\* root <= b, for a root produced by sqrt and a number b.
RootLe(root, b) ==
    /\ Defined(root)
    /\ Defined(b)
    /\ \/ Val(root).floor < Val(b)
       \/ Val(root).floor = Val(b) /\ Val(root).floor * Val(root).floor = Val(root).sq

\* np.arctan2(dy, dx): the bearing of the vector (dx, dy), kept as that
\* direction; arctan2(0, 0) is the angle 0, the bearing of (1, 0).
arctan2(dy, dx) ==
    IF IsNaN(dy) \/ IsNaN(dx) THEN NaN
    ELSE IF Val(dx) = 0 /\ Val(dy) = 0 THEN <<[dx |-> 1, dy |-> 0]>>
    ELSE <<[dx |-> Val(dx), dy |-> Val(dy)]>>

\* length * cos(angle) and length * sin(angle) for a root `length` and a
\* bearing `angle`: cos = dx / |(dx, dy)|, sin = dy / |(dx, dy)|, so the
\* product is c * sqrt(length.sq / (dx^2 + dy^2)): c itself when the length
\* is that of the bearing's own vector, 0 when the length is 0.
TimesUnit(length, angle, c) ==
    IF IsNaN(length) \/ IsNaN(angle) THEN NaN
    ELSE LET n2 == Val(angle).dx * Val(angle).dx + Val(angle).dy * Val(angle).dy
         IN  IF Val(length).sq = 0 THEN Num(0)
             ELSE IF Val(length).sq = n2 THEN Num(c)
             ELSE Num((c * Val(length).floor) \div ISqrt(n2))

TimesCos(length, angle) ==
    IF IsNaN(angle) THEN NaN ELSE TimesUnit(length, angle, Val(angle).dx)
TimesSin(length, angle) ==
    IF IsNaN(angle) THEN NaN ELSE TimesUnit(length, angle, Val(angle).dy)

---------------------------------------------------------------------------
(* Quadrant and signal categorization.                                     *)

\* Mutant of categorize_point: the ties x == 0, y == 0 fall on the negative side.
categorize_point_strict(x, y) ==
    IF Ge(x, Num(1)) /\ Ge(y, Num(1)) THEN "Leading"
    ELSE IF Lt(x, Num(1)) /\ Ge(y, Num(1)) THEN "Improving"
    ELSE IF Ge(x, Num(1)) /\ Lt(y, Num(1)) THEN "Weakening"
    ELSE "Lagging"

categorize_point(x, y) ==
    IF Ge(x, Num(0)) /\ Ge(y, Num(0)) THEN "Leading"
    ELSE IF Lt(x, Num(0)) /\ Ge(y, Num(0)) THEN "Improving"
    ELSE IF Ge(x, Num(0)) /\ Lt(y, Num(0)) THEN "Weakening"
    ELSE "Lagging"

\* Mutant of categorize_radius: a point on the circle is 'Strong'
\* (distance < circle_radius).
categorize_radius_open(x, y, circle_radius) ==
    LET distance == sqrt(Add(Square(x), Square(y)))
    IN  IF RootLe(distance, circle_radius)
           /\ Val(distance).sq # Val(circle_radius) * Val(circle_radius)
        THEN "Weak" ELSE "Strong"

categorize_radius(x, y, circle_radius) ==
    LET distance == sqrt(Add(Square(x), Square(y)))
    IN  IF RootLe(distance, circle_radius) THEN "Weak" ELSE "Strong"

---------------------------------------------------------------------------
(* Relative-strength calculator.                                           *)

\* prices[etf] / benchmark_prices for every column of the table, the
\* benchmark's own column included.  The caller has checked that the
\* benchmark is a column (prices[benchmark] raises KeyError otherwise).
calculate_rs_ratios(table, bench) ==
    LET benchmark_prices == table[bench]
    IN  [etf \in DOMAIN table |->
            [t \in 1..Len(table[etf]) |-> Div(table[etf][t], benchmark_prices[t])]]

---------------------------------------------------------------------------
(* JDK RS transform.                                                       *)

RECURSIVE SumRange(_, _, _)
\* data[lo] + ... + data[hi], NaN as soon as one term is NaN.
SumRange(data, lo, hi) ==
    IF lo > hi THEN Num(0)
    ELSE IF lo = hi THEN data[lo]
    ELSE LET mid == (lo + hi) \div 2
         IN  Add(SumRange(data, lo, mid), SumRange(data, mid + 1, hi))

\* data.rolling(window=w).mean(): NaN until w observations are in the
\* window (min_periods defaults to the window) and wherever the window
\* holds a NaN.
RollingMean(data, w) ==
    [t \in 1..Len(data) |->
        IF t < w THEN NaN
        ELSE LET sum == SumRange(data, t - w + 1, t)
             IN  IF IsNaN(sum) THEN NaN ELSE Num(Val(sum) \div w)]

\* series.diff(n): s[t] - s[t-n], NaN for the first n positions.
Diff(series, n) ==
    [t \in 1..Len(series) |->
        IF t <= n THEN NaN ELSE Sub(series[t], series[t - n])]

\* Mutant of calc_jdk_rs_ratio: the long average needs one more observation.
calc_jdk_rs_ratio_late(data) ==
    LET ma_50 == RollingMean(data, ShortWindow)
        ma_200 == RollingMean(data, LongWindow + 1)
    IN  [t \in 1..Len(data) |-> Sub(Div(ma_50[t], ma_200[t]), Num(Scale))]

calc_jdk_rs_ratio(data) ==
    LET ma_50 == RollingMean(data, ShortWindow)
        ma_200 == RollingMean(data, LongWindow)
    IN  [t \in 1..Len(data) |-> Sub(Div(ma_50[t], ma_200[t]), Num(Scale))]

\* Mutant of calc_jdk_rs_momentum: the lag is one short.
calc_jdk_rs_momentum_short(jdk_rs_ratio) == Diff(jdk_rs_ratio, MomentumLag - 1)

calc_jdk_rs_momentum(jdk_rs_ratio) == Diff(jdk_rs_ratio, MomentumLag)

\* Mutant of calculate_jdk_rs: a series of exactly 200 points is refused.
calculate_jdk_rs_refuse200(data) ==
    IF Len(data) <= MinHistory
    THEN [exc |-> "ValueError", ratio |-> <<>>, momentum |-> <<>>]
    ELSE LET jdk_rs_ratio == calc_jdk_rs_ratio(data)
         IN  [exc |-> "none",
              ratio |-> jdk_rs_ratio,
              momentum |-> calc_jdk_rs_momentum(jdk_rs_ratio)]

\* Either the exception raised, or the two columns of the returned frame.
calculate_jdk_rs(data) ==
    IF Len(data) < MinHistory
    THEN [exc |-> "ValueError", ratio |-> <<>>, momentum |-> <<>>]
    ELSE LET jdk_rs_ratio == calc_jdk_rs_ratio(data)
         IN  [exc |-> "none",
              ratio |-> jdk_rs_ratio,
              momentum |-> calc_jdk_rs_momentum(jdk_rs_ratio)]

---------------------------------------------------------------------------
(* State shared by the specifications: the parts a specification does not  *)
(* use stay at these values.                                               *)

NoTable == <<>>

PipelineIdle ==
    /\ prices = NoTable
    /\ benchmark = "B"
    /\ rs_ratios = NoTable
    /\ jdk_rs_ratios = NoTable
    /\ jdk_rs_momentums = NoTable
    /\ etf_names = <<>>
    /\ trailing_days = DefaultTrailingDays
    /\ index_kind = "dates"
    /\ i = 0
    /\ j = 0
    /\ coordinates = <<>>
    /\ err = "none"

pipeline_vars == <<prices, benchmark, rs_ratios, jdk_rs_ratios, jdk_rs_momentums, etf_names,
                   trailing_days, index_kind, i, j, coordinates, err>>

---------------------------------------------------------------------------
(* SpecCategorize: categorize_point and categorize_radius called on every  *)
(* point of a small grid (NaN included) and every radius of a small range. *)

Coords == {NaN} \cup {Num(v) : v \in -MaxCoord..MaxCoord}
Radii == {Num(v) : v \in -1..(MaxCoord + 1)}

InitCategorize ==
    /\ PipelineIdle
    /\ pc = "call"
    /\ args \in [x : Coords, y : Coords, r : Radii]
    /\ ret = <<>>

call_categorize_point ==
    /\ pc = "call"
    /\ ret' = <<[fn |-> "categorize_point",
                 value |-> categorize_point(args.x, args.y)]>>
    /\ pc' = "returned"
    /\ UNCHANGED <<args, pipeline_vars>>

call_categorize_radius ==
    /\ pc = "call"
    /\ ret' = <<[fn |-> "categorize_radius",
                 value |-> categorize_radius(args.x, args.y, args.r)]>>
    /\ pc' = "returned"
    /\ UNCHANGED <<args, pipeline_vars>>

NextCategorize == call_categorize_point \/ call_categorize_radius

SpecCategorize == InitCategorize /\ [][NextCategorize]_vars

Returned(fn) == pc = "returned" /\ ret # <<>> /\ ret[1].fn = fn

---------------------------------------------------------------------------
(* Series used as direct inputs.  Shape(kind, t) is the value at Python    *)
(* position t; the shapes cross zero, repeat values and start with NaN so  *)
(* that every quadrant, both signal strengths and undefined points occur.  *)

Step == 30

Shape(kind, t) ==
    CASE kind = "rise" -> Num(Step * (t - 9))
      [] kind = "fall" -> Num(Step * (12 - t))
      [] kind = "zigzag" -> Num(IF t % 3 = 0 THEN 2 * Step ELSE ((t % 5) - 2) * Step)
      [] kind = "late" -> IF t < 8 THEN NaN ELSE Num(Step * (t - 14))
      [] kind = "zero" -> Num(0)

SeriesOf(kind, n) == [t \in 1..n |-> Shape(kind, t - 1)]

\* SeriesOf(kind, n) with positions 0 .. head-1 and position hole undefined.
WithHoles(series, head, hole) ==
    [t \in 1..Len(series) |->
        IF t <= head \/ t = hole + 1 THEN NaN ELSE series[t]]

---------------------------------------------------------------------------
(* SpecMomentum: calc_jdk_rs_momentum called on ratio series of every      *)
(* length 0 .. MaxLen, with an undefined head and an undefined position.   *)

MaxHead == 2

InitMomentum ==
    /\ PipelineIdle
    /\ pc = "call"
    /\ \E n \in 0..MaxLen, kind \in {"rise", "zigzag"}, head \in 0..MaxHead,
          hole \in 0..MaxLen :
          args = [jdk_rs_ratio |-> WithHoles(SeriesOf(kind, n), head, hole)]
    /\ ret = <<>>

call_calc_jdk_rs_momentum ==
    /\ pc = "call"
    /\ ret' = <<[fn |-> "calc_jdk_rs_momentum",
                 value |-> calc_jdk_rs_momentum(args.jdk_rs_ratio)]>>
    /\ pc' = "returned"
    /\ UNCHANGED <<args, pipeline_vars>>

NextMomentum == call_calc_jdk_rs_momentum

SpecMomentum == InitMomentum /\ [][NextMomentum]_vars

---------------------------------------------------------------------------
(* Coordinate extraction.                                                  *)

DefaultCircleRadius == Num(Scale \div 10)

\* series[k] for an integer k.  On a RangeIndex ("range") the key is a
\* label: present iff 0 <= k < N, KeyError otherwise.  On a non-integer
\* index such as dates ("dates") the key falls back to a position, and a
\* negative position counts from the end; IndexError outside -N .. N-1.
GetItem(series, k, kind) ==
    LET n == Len(series)
    IN  IF kind = "range"
        THEN IF 0 <= k /\ k < n THEN [exc |-> "none", v |-> series[k + 1]]
             ELSE [exc |-> "KeyError", v |-> NaN]
        ELSE IF 0 <= k /\ k < n THEN [exc |-> "none", v |-> series[k + 1]]
             ELSE IF -n <= k /\ k < 0 THEN [exc |-> "none", v |-> series[n + k + 1]]
             ELSE [exc |-> "IndexError", v |-> NaN]

\* The first exception among a sequence of reads, "none" if there is none.
RECURSIVE FirstExc(_)
FirstExc(reads) ==
    IF reads = <<>> THEN "none"
    ELSE IF Head(reads).exc # "none" THEN Head(reads).exc
    ELSE FirstExc(Tail(reads))

\* Mutant of projected: the step is taken back towards the historic point.
projected_backwards(x_point, y_point, x_historic, y_historic) ==
    LET angle_historic_current ==
            arctan2(Sub(y_point, y_historic), Sub(x_point, x_historic))
        length_historic_current ==
            sqrt(Add(Square(Sub(x_point, x_historic)),
                     Square(Sub(y_point, y_historic))))
    IN  [x |-> Sub(x_point, TimesCos(length_historic_current, angle_historic_current)),
         y |-> Sub(y_point, TimesSin(length_historic_current, angle_historic_current))]

\* The projected point: the current point moved by length_current_projected
\* along angle_historic_current.
projected(x_point, y_point, x_historic, y_historic) ==
    LET angle_historic_current ==
            arctan2(Sub(y_point, y_historic), Sub(x_point, x_historic))
        length_historic_current ==
            sqrt(Add(Square(Sub(x_point, x_historic)),
                     Square(Sub(y_point, y_historic))))
        length_current_projected == length_historic_current
    IN  [x |-> Add(x_point, TimesCos(length_current_projected, angle_historic_current)),
         y |-> Add(y_point, TimesSin(length_current_projected, angle_historic_current))]

extrapolate_coordinates(x_series, y_series, jj, kind) ==
    LET rx == GetItem(x_series, jj, kind)
        ry == GetItem(y_series, jj, kind)
        rnx == GetItem(x_series, jj + 1, kind)
        rny == GetItem(y_series, jj + 1, kind)
        rhx == GetItem(x_series, jj - HistoricLag, kind)
        rhy == GetItem(y_series, jj - HistoricLag, kind)
        exc == FirstExc(<<rx, ry, rnx, rny, rhx, rhy>>)
        moving_towards == categorize_point(rnx.v, rny.v)
        proj == projected(rx.v, ry.v, rhx.v, rhy.v)
        x_change == Sub(proj.x, rx.v)
        y_change == Sub(proj.y, ry.v)
    IN  IF exc # "none" THEN [exc |-> exc]
        ELSE [exc |-> "none",
              x_point |-> rx.v,
              y_point |-> ry.v,
              projected_x |-> proj.x,
              projected_y |-> proj.y,
              moving_towards |-> moving_towards,
              x_historic |-> rhx.v,
              y_historic |-> rhy.v,
              projected_category |-> categorize_point(x_change, y_change)]

\* The row appended for index jj of instrument etf, given the tuple
\* extrapolate_coordinates returned.
Row(etf, jj, e) ==
    LET category == categorize_point(e.x_point, e.y_point)
        signal == categorize_radius(e.x_point, e.y_point, DefaultCircleRadius)
    IN  [ETF |-> etf,
         Date |-> jj,
         Current_X |-> e.x_point,
         Current_Y |-> e.y_point,
         Current_Category |-> category,
         Current_Signal_Strength |-> signal,
         Historic_X |-> e.x_historic,
         Historic_Y |-> e.y_historic,
         Angle |-> arctan2(Sub(e.y_point, e.y_historic), Sub(e.x_point, e.x_historic)),
         Projected_X |-> e.projected_x,
         Projected_Y |-> e.projected_y,
         Projected_Category |-> e.moving_towards,
         Projected_Signal_Strength |-> signal]

\* Length of the series of the instrument the outer loop is at.
CurrentLen == Len(jdk_rs_ratios[etf_names[i]])

\* Mutant of InRange: range(trailing_days, len(x_series)).
InRangeToEnd(jj, n) == jj < n

\* j in range(trailing_days, len(x_series) - 1), j having started at
\* trailing_days.
InRange(jj, n) == jj < n - 1

\* for etf in etf_names: take the next instrument and start its inner
\* loop, or return the table when there is none left.
for_etf ==
    /\ pc = "for_etf"
    /\ IF i < Len(etf_names)
       THEN /\ i' = i + 1
            /\ j' = trailing_days
            /\ pc' = "for_j"
       ELSE /\ pc' = "done"
            /\ UNCHANGED <<i, j>>
    /\ UNCHANGED <<prices, benchmark, rs_ratios, jdk_rs_ratios, jdk_rs_momentums,
                   etf_names, trailing_days, index_kind, coordinates, err, args, ret>>

\* One pass of  for j in range(trailing_days, len(x_series)-1):  the call
\* of extrapolate_coordinates, the two categorizations and the append; an
\* exception ends the program.
for_j ==
    /\ pc = "for_j"
    /\ IF InRange(j, CurrentLen)
       THEN LET etf == etf_names[i]
                e == extrapolate_coordinates(jdk_rs_ratios[etf],
                                             jdk_rs_momentums[etf], j, index_kind)
            IN  IF e.exc # "none"
                THEN /\ err' = e.exc
                     /\ pc' = "error"
                     /\ UNCHANGED <<j, coordinates>>
                ELSE /\ coordinates' = Append(coordinates, Row(etf, j, e))
                     /\ j' = j + 1
                     /\ UNCHANGED <<pc, err>>
       ELSE /\ pc' = "for_etf"
            /\ UNCHANGED <<j, coordinates, err>>
    /\ UNCHANGED <<prices, benchmark, rs_ratios, jdk_rs_ratios, jdk_rs_momentums,
                   etf_names, trailing_days, index_kind, i, args, ret>>

---------------------------------------------------------------------------
(* SpecExtract: extract_coordinates called on x and y series of every      *)
(* length 0 .. MaxLen, for one or two instruments, several trailing_days   *)
(* and both kinds of index.                                                *)

ShapePairs == {<<"rise", "fall">>, <<"zigzag", "rise">>, <<"rise", "late">>,
               <<"late", "zigzag">>, <<"fall", "zero">>}

TrailingChoices == {0, HistoricLag - 1, HistoricLag, DefaultTrailingDays}

InitExtract ==
    /\ pc = "for_etf"
    /\ prices = NoTable
    /\ benchmark = "B"
    /\ rs_ratios = NoTable
    /\ etf_names \in {<<"A">>, <<"A", "B">>}
    /\ \E n \in 0..MaxLen, sa \in ShapePairs :
          \* B's series are A's, x and y exchanged.
          /\ jdk_rs_ratios = [etf \in {"A", "B"} |->
                 SeriesOf(IF etf = "A" THEN sa[1] ELSE sa[2], n)]
          /\ jdk_rs_momentums = [etf \in {"A", "B"} |->
                 SeriesOf(IF etf = "A" THEN sa[2] ELSE sa[1], n)]
    /\ trailing_days \in TrailingChoices
    /\ index_kind \in {"dates", "range"}
    /\ i = 0
    /\ j = 0
    /\ coordinates = <<>>
    /\ err = "none"
    /\ args = <<>>
    /\ ret = <<>>

NextExtract == for_etf \/ for_j

SpecExtract == InitExtract /\ [][NextExtract]_vars

---------------------------------------------------------------------------
(* Spec: the whole pipeline on daily prices of instrument A and benchmark  *)
(* B: calculate_rs_ratios, calculate_jdk_rs on every column, then          *)
(* extract_coordinates for A with the default trailing_days and radius.    *)

BasePrice == 100
WavePeriod == 40

\* Positive prices at Python position t.
Price(kind, t) ==
    CASE kind = "flat" -> Num(BasePrice)
      [] kind = "up" -> Num(BasePrice + t)
      [] kind = "down" -> Num(4 * BasePrice - t)
      [] kind = "wave" -> Num(BasePrice +
                              (IF (t \div WavePeriod) % 2 = 0
                               THEN t % WavePeriod
                               ELSE WavePeriod - (t % WavePeriod)))

PricesOf(kind, n) == [t \in 1..n |-> Price(kind, t - 1)]

\* <<shape of A, shape of B>>: identical prices, A gaining on B, A losing
\* to B, A oscillating around B.
PricePairs == {<<"up", "up">>, <<"wave", "wave">>, <<"up", "flat">>,
               <<"down", "flat">>, <<"wave", "flat">>, <<"flat", "up">>}

Lengths == ((MinHistory - Slack)..(MinHistory + Slack)) \cup {ScenarioDays}

Init ==
    /\ pc = "calculate_rs_ratios"
    /\ \E n \in Lengths, pair \in PricePairs :
          prices = [etf \in {"A", "B"} |->
                       PricesOf(IF etf = "A" THEN pair[1] ELSE pair[2], n)]
    /\ benchmark \in {"B", "SPY"}
    /\ rs_ratios = NoTable
    /\ jdk_rs_ratios = NoTable
    /\ jdk_rs_momentums = NoTable
    /\ etf_names = <<"A">>
    /\ trailing_days = DefaultTrailingDays
    /\ index_kind = "dates"
    /\ i = 0
    /\ j = 0
    /\ coordinates = <<>>
    /\ err = "none"
    /\ args = <<>>
    /\ ret = <<>>

run_calculate_rs_ratios ==
    /\ pc = "calculate_rs_ratios"
    /\ IF benchmark \notin DOMAIN prices
       THEN /\ err' = "KeyError"
            /\ pc' = "error"
            /\ UNCHANGED rs_ratios
       ELSE /\ rs_ratios' = calculate_rs_ratios(prices, benchmark)
            /\ pc' = "calculate_jdk_rs"
            /\ UNCHANGED err
    /\ UNCHANGED <<prices, benchmark, jdk_rs_ratios, jdk_rs_momentums, etf_names,
                   trailing_days, index_kind, i, j, coordinates, args, ret>>

\* calculate_jdk_rs on every column of rs_ratios; its two result columns
\* become the instrument's entries of jdk_rs_ratios and jdk_rs_momentums.
run_calculate_jdk_rs ==
    /\ pc = "calculate_jdk_rs"
    /\ LET jdk_rs == [etf \in DOMAIN rs_ratios |-> calculate_jdk_rs(rs_ratios[etf])]
       IN  IF \E etf \in DOMAIN rs_ratios : jdk_rs[etf].exc # "none"
           THEN /\ err' = "ValueError"
                /\ pc' = "error"
                /\ UNCHANGED <<jdk_rs_ratios, jdk_rs_momentums>>
           ELSE /\ jdk_rs_ratios' = [etf \in DOMAIN rs_ratios |-> jdk_rs[etf].ratio]
                /\ jdk_rs_momentums' = [etf \in DOMAIN rs_ratios |-> jdk_rs[etf].momentum]
                /\ pc' = "for_etf"
                /\ UNCHANGED err
    /\ UNCHANGED <<prices, benchmark, rs_ratios, etf_names, trailing_days,
                   index_kind, i, j, coordinates, args, ret>>

Next == run_calculate_rs_ratios \/ run_calculate_jdk_rs \/ for_etf \/ for_j

Spec == Init /\ [][Next]_vars

---------------------------------------------------------------------------
(* Properties.                                                             *)

\* The TLA+ index of Python position k of a series of n points, a negative
\* k counting from the end.
PyPos(k, n) == IF k >= 0 THEN k + 1 ELSE n + k + 1

Rows == {coordinates[k] : k \in 1..Len(coordinates)}

\* The JDK RS tables have been computed.
JdkDone == pc \in {"for_etf", "for_j", "done"}

\* C1 (under Spec): when A's prices equal B's over ScenarioDays days,
\* every row emitted for A with trailing_days = 20 and radius 0.1 is
\* 'Leading' and 'Weak', the rows at timestamps where the ratio or the
\* momentum is still undefined included.
C1_IdenticalPricesAllLeadingWeak ==
    (/\ prices["A"] = prices["B"]
     /\ Len(prices["A"]) = ScenarioDays
     /\ benchmark = "B"
     /\ trailing_days = DefaultTrailingDays)
    => \A row \in Rows :
          row.ETF = "A" =>
              /\ row.Current_Category = "Leading"
              /\ row.Current_Signal_Strength = "Weak"

\* C2 (under SpecCategorize): for defined x and y, categorize_point returns
\* 'Leading' iff x >= 0 and y >= 0, 'Improving' iff x < 0 and y >= 0,
\* 'Weakening' iff x >= 0 and y < 0, 'Lagging' iff x < 0 and y < 0.
C2_QuadrantBySign ==
    (Returned("categorize_point") /\ Defined(args.x) /\ Defined(args.y))
    => LET x == Val(args.x)
           y == Val(args.y)
           c == ret[1].value
       IN  /\ c = "Leading" <=> (x >= 0 /\ y >= 0)
           /\ c = "Improving" <=> (x < 0 /\ y >= 0)
           /\ c = "Weakening" <=> (x >= 0 /\ y < 0)
           /\ c = "Lagging" <=> (x < 0 /\ y < 0)

\* A tie on the x axis below the origin: classified 'Weakening', not 'Lagging'.
C2_Witness ==
    /\ Returned("categorize_point")
    /\ args.x = Num(0)
    /\ Lt(args.y, Num(0))
    /\ ret[1].value = "Weakening"

\* C3 (under SpecCategorize): for every radius r >= 0, categorize_radius
\* returns 'Weak' iff x^2 + y^2 <= r^2 and 'Strong' otherwise.
C3_WeakIffWithinCircle ==
    (Returned("categorize_radius") /\ Ge(args.r, Num(0)))
    => LET within == /\ Defined(args.x)
                     /\ Defined(args.y)
                     /\ Val(args.x) * Val(args.x) + Val(args.y) * Val(args.y)
                            <= Val(args.r) * Val(args.r)
       IN  /\ ret[1].value \in {"Weak", "Strong"}
           /\ ret[1].value = "Weak" <=> within

\* A point exactly on the circle, off both axes, is 'Weak'.
C3_Witness ==
    /\ Returned("categorize_radius")
    /\ Lt(Num(0), args.x)
    /\ Lt(Num(0), args.y)
    /\ Lt(Num(0), args.r)
    /\ Val(args.x) * Val(args.x) + Val(args.y) * Val(args.y) = Val(args.r) * Val(args.r)
    /\ ret[1].value = "Weak"

\* C4 (under Spec): once calculate_jdk_rs has run on the relative-strength
\* series, it has raised ValueError iff the series has fewer than
\* 200 points; when it raised nothing of a result is kept, and
\* otherwise both result columns have the length of the input.
C4_ValueErrorIffShorterThan200 ==
    (pc \notin {"calculate_rs_ratios", "calculate_jdk_rs"} /\ err # "KeyError")
    => LET n == Len(rs_ratios["A"])
       IN  IF n < 200
           THEN /\ err = "ValueError"
                /\ pc = "error"
                /\ jdk_rs_ratios = NoTable
                /\ jdk_rs_momentums = NoTable
           ELSE /\ err = "none"
                /\ \A etf \in DOMAIN rs_ratios :
                      /\ Len(jdk_rs_ratios[etf]) = n
                      /\ Len(jdk_rs_momentums[etf]) = n

\* A series of exactly 200 points has been transformed without error.
C4_Witness ==
    /\ JdkDone
    /\ Len(rs_ratios["A"]) = 200
    /\ err = "none"
    /\ Len(jdk_rs_ratios["A"]) = 200

\* calculate_jdk_rs has just returned its frames.
JdkReturned == pc = "for_etf" /\ i = 0

\* The ratio is undefined at exactly the first `head` timestamps; the
\* momentum is undefined where the ratio is, and at the first 20
\* timestamps at which the ratio is defined, and nowhere else.
UndefinedExactly(head) ==
    \A etf \in DOMAIN jdk_rs_ratios :
       LET ratio == jdk_rs_ratios[etf]
           momentum == jdk_rs_momentums[etf]
           defined == {t \in 1..Len(ratio) : Defined(ratio[t])}
       IN  \A t \in 1..Len(ratio) :
              /\ IsNaN(ratio[t]) <=> t <= head
              /\ IsNaN(momentum[t])
                    <=> \/ t \notin defined
                        \/ Cardinality({u \in defined : u < t}) < 20

\* C5 as stated (under Spec): the ratio is undefined at exactly the first
\* 200 timestamps, the momentum at those and at the first 20 timestamps
\* at which the ratio is defined.
C5_RatioUndefinedFirst200 == JdkReturned => UndefinedExactly(200)

\* C5 as amended (under Spec): the ratio is undefined at exactly the first
\* 199 timestamps and defined from the 200th on; the momentum is undefined
\* at those and at the first 20 timestamps at which the ratio is defined,
\* and defined at every later timestamp.
C5_RatioUndefinedFirst199 == JdkReturned => UndefinedExactly(199)

\* The scenario's series: ratio defined at the 200th timestamp, momentum
\* still undefined at the 219th and defined at the 220th.
C5_Witness ==
    /\ JdkReturned
    /\ Len(jdk_rs_ratios["A"]) = ScenarioDays
    /\ IsNaN(jdk_rs_ratios["A"][199])
    /\ Defined(jdk_rs_ratios["A"][200])
    /\ IsNaN(jdk_rs_momentums["A"][219])
    /\ Defined(jdk_rs_momentums["A"][220])

\* C6 (under SpecMomentum): at every Python position t >= 20 at which
\* ratio[t] and ratio[t-20] are defined, momentum[t] = ratio[t] -
\* ratio[t-20]; at every other position momentum[t] is undefined.
C6_MomentumIsLag20Difference ==
    Returned("calc_jdk_rs_momentum")
    => LET ratio == args.jdk_rs_ratio
           momentum == ret[1].value
       IN  /\ Len(momentum) = Len(ratio)
           /\ \A t \in 0..(Len(ratio) - 1) :
                 IF t >= 20 /\ Defined(ratio[t + 1]) /\ Defined(ratio[t - 20 + 1])
                 THEN momentum[t + 1] = Num(Val(ratio[t + 1]) - Val(ratio[t - 20 + 1]))
                 ELSE IsNaN(momentum[t + 1])

\* A series with a nonzero momentum at one position >= 20 and, at another,
\* an undefined one because ratio[t-20] is undefined.
C6_Witness ==
    /\ Returned("calc_jdk_rs_momentum")
    /\ \E t \in 21..Len(ret[1].value) :
          Defined(ret[1].value[t]) /\ ret[1].value[t] # Num(0)
    /\ \E t \in 21..Len(ret[1].value) :
          /\ IsNaN(ret[1].value[t])
          /\ Defined(args.jdk_rs_ratio[t])
          /\ IsNaN(args.jdk_rs_ratio[t - 20])

\* C7 (under SpecExtract): with trailing_days = 20 extract_coordinates
\* raises nothing and returns, for each instrument in turn, exactly one
\* row for each index 20 .. N-2 in ascending order, carrying the
\* instrument and the timestamp of that index: max(0, N - 21) rows each.
C7_OneRowPerIndex ==
    trailing_days = 20
    => /\ pc # "error"
       /\ pc = "done"
          => LET n == Len(jdk_rs_ratios["A"])
                 count == IF n - 20 - 1 > 0 THEN n - 20 - 1 ELSE 0
             IN  /\ Len(coordinates) = Len(etf_names) * count
                 /\ \A p \in 1..Len(etf_names) :
                       \A k \in 1..count :
                          /\ coordinates[(p - 1) * count + k].ETF = etf_names[p]
                          /\ coordinates[(p - 1) * count + k].Date = 20 + k - 1

\* Two instruments, several rows each, all emitted.
C7_Witness ==
    /\ pc = "done"
    /\ trailing_days = 20
    /\ Len(etf_names) = 2
    /\ Len(jdk_rs_ratios["A"]) >= 24
    /\ Len(coordinates) = 2 * (Len(jdk_rs_ratios["A"]) - 21)

\* C8 (under SpecExtract): in every row, 'Projected Category' is the
\* quadrant of the displacement from the current to the projected point.
\* Stated for the calls whose historic index j - 5 is not negative.
C8_ProjectedCategoryOfDisplacement ==
    trailing_days >= 5
    => \A row \in Rows :
          row.Projected_Category =
              categorize_point(Sub(row.Projected_X, row.Current_X),
                               Sub(row.Projected_Y, row.Current_Y))

\* The values extrapolate_coordinates reads for a row: the current point
\* at index j and the historic point at index j - 5.
ReadFor(row) ==
    LET xs == jdk_rs_ratios[row.ETF]
        ys == jdk_rs_momentums[row.ETF]
    IN  [x |-> xs[PyPos(row.Date, Len(xs))],
         y |-> ys[PyPos(row.Date, Len(ys))],
         xh |-> xs[PyPos(row.Date - 5, Len(xs))],
         yh |-> ys[PyPos(row.Date - 5, Len(ys))],
         xn |-> xs[PyPos(row.Date + 1, Len(xs))],
         yn |-> ys[PyPos(row.Date + 1, Len(ys))]]

\* C9 as stated (under SpecExtract): in every row, (Projected X,
\* Projected Y) = (x[j] + (x[j] - x[j-5]), y[j] + (y[j] - y[j-5])).
\* Stated for the calls whose historic index j - 5 is not negative.
C9_ProjectedIsCurrentPlusDisplacement ==
    trailing_days >= 5
    => \A row \in Rows :
          LET r == ReadFor(row)
          IN  /\ row.Projected_X = Add(r.x, Sub(r.x, r.xh))
              /\ row.Projected_Y = Add(r.y, Sub(r.y, r.yh))

\* C9 as amended (under SpecExtract): in every row for which x[j], y[j],
\* x[j-5] and y[j-5] are all defined, (Projected X, Projected Y) =
\* (x[j] + (x[j] - x[j-5]), y[j] + (y[j] - y[j-5])); in every row for
\* which one of the four is undefined, Projected X and Projected Y are
\* both undefined.
C9_ProjectedWhereDefined ==
    \A row \in Rows :
       LET r == ReadFor(row)
       IN  IF Defined(r.x) /\ Defined(r.y) /\ Defined(r.xh) /\ Defined(r.yh)
           THEN /\ row.Projected_X = Num(Val(r.x) + (Val(r.x) - Val(r.xh)))
                /\ row.Projected_Y = Num(Val(r.y) + (Val(r.y) - Val(r.yh)))
           ELSE /\ IsNaN(row.Projected_X)
                /\ IsNaN(row.Projected_Y)

\* A row with trailing_days = 20 whose projected point is defined and is
\* not the next actual point.
C9_Witness ==
    \E row \in Rows :
       LET r == ReadFor(row)
       IN  /\ trailing_days = 20
           /\ Defined(r.x) /\ Defined(r.y) /\ Defined(r.xh) /\ Defined(r.yh)
           /\ Defined(r.xn) /\ Defined(r.yn)
           /\ row.Projected_X # r.xn
           /\ row.Projected_Y # r.yn
           /\ row.Projected_X = Num(2 * Val(r.x) - Val(r.xh))

\* C10 (under SpecExtract): every index j the loop passes to
\* extrapolate_coordinates has j - 5 >= 0 and j + 1 <= N - 1, and no
\* indexing error is ever raised.
C10_OnlyValidIndicesPassed ==
    /\ (pc = "for_j" /\ InRange(j, CurrentLen))
       => (j - 5 >= 0 /\ j + 1 <= CurrentLen - 1)
    /\ err \notin {"IndexError", "KeyError"}

====
